---- MODULE Spec2Model ----
(***************************************************************************)
(* A model of javsp/__main__.py: the crawler fan-out (parallel_crawler and *)
(* its worker, wrapper), the merge of the per-site records (info_summary)  *)
(* and the per-movie pipeline of RunNormalMode.                            *)
(***************************************************************************)
EXTENDS Integers, Sequences, FiniteSets, TLC

\* ------------------------------------------------------------------ bounds
\* Largest configured network.retry explored.
MaxRetry == 2
\* Largest configured network.timeout explored, in clock ticks.
MaxTimeout == 1
\* Largest number of chunks a title is split into.
MaxChunks == 2

\* ------------------------------------------------------------ python values
\* Python's None for a string-valued attribute.
NONE == "None"
\* Python's None for a list-valued attribute.
NoneL == <<NONE>>
\* Python's None for a dict-valued attribute (dicts are ordered key/value lists).
NoneD == <<[k |-> NONE, v |-> NONE]>>

StrFields == {"dvdid", "cid", "title", "plot"}
ListFields == {"genre", "actress"}
DictFields == {"actress_pics"}
\* The attributes the merge loop treats with the generic rule.
PlainFields == StrFields \cup ListFields \cup DictFields

\* bool(v) of an attribute value, by the attribute's type.
Truthy(f, v) ==
    IF f \in StrFields \cup {"cover", "big_cover"} THEN v \notin {NONE, ""}
    ELSE IF f = "uncensored" THEN v = "True"
    ELSE IF f \in ListFields \cup {"covers", "big_covers"} THEN v \notin {NoneL, <<>>}
    ELSE v \notin {NoneD, <<>>}

\* ------------------------------------------------------------ ordered dict
\* A python dict is a sequence of [k, v] entries in insertion order.
DictHas(d, key) == \E i \in DOMAIN d : d[i].k = key
DictGet(d, key) == d[CHOOSE i \in DOMAIN d : d[i].k = key].v
\* d[key] = val: an existing key keeps its position and takes the new value.
DictSet(d, key, val) ==
    IF DictHas(d, key)
    THEN [i \in DOMAIN d |-> IF d[i].k = key THEN [k |-> key, v |-> val] ELSE d[i]]
    ELSE Append(d, [k |-> key, v |-> val])
\* {k: v for k, v in d.items() if keep(k, v)}
DictFilter(d, keep(_)) == SelectSeq(d, keep)
\* i in seq, for a python list
InList(x, seq) == \E i \in DOMAIN seq : seq[i] = x
\* list.remove(x): drops the first occurrence
ListRemove(seq, x) ==
    LET i == CHOOSE j \in DOMAIN seq : seq[j] = x /\ \A h \in 1..(j-1) : seq[h] # x
    IN  SubSeq(seq, 1, i-1) \o SubSeq(seq, i+1, Len(seq))

\* ------------------------------------------------------------ site names
\* CrawlerID values, as strings of characters.
javdb == <<"j", "a", "v", "d", "b">>
javbus == <<"j", "a", "v", "b", "u", "s">>
fanza == <<"f", "a", "n", "z", "a">>
njav == <<"n", "j", "a", "v">>
fc2 == <<"f", "c", "2">>

\* ------------------------------------------------------------ MovieInfo
\* MovieInfo(...): a fresh record, every attribute unset but the ids.
NewInfo(dvdid, cid) ==
    [dvdid |-> dvdid, cid |-> cid, title |-> NONE, plot |-> NONE,
     cover |-> NONE, big_cover |-> NONE, genre |-> NoneL, actress |-> NoneL,
     actress_pics |-> NoneD, uncensored |-> NONE, success |-> FALSE]
\* MovieInfo(movie) copies both ids of the movie.
MovieInfoOfMovie(m) == NewInfo(m.dvdid, m.cid)
\* MovieInfo(movie.dvdid) is seeded by the dvdid alone.
MovieInfoOfDvdid(m) == NewInfo(m.dvdid, NONE)

\* ------------------------------------------------------------ info_summary
\* The tags info_summary appends for a hard-subbed and for an uncensored movie.
TagHardSub == "hard_sub"
TagUncensored == "uncensored_leak"

\* actressAliasMap: fixed name -> aliases (data/actress_alias.json).
actressAliasMap == <<[k |-> "Ann", v |-> <<"Annie", "An">>]>>
resolve_alias(name) ==
    IF \E i \in DOMAIN actressAliasMap : InList(name, actressAliasMap[i].v)
    THEN actressAliasMap[CHOOSE i \in DOMAIN actressAliasMap :
                           /\ InList(name, actressAliasMap[i].v)
                           /\ \A j \in 1..(i-1) : ~InList(name, actressAliasMap[j].v)].k
    ELSE name

\* The titles that end with an actress name after a delimiter, with what is
\* left of them once the name is cut.
TrailTable == <<[title |-> "Foo Ann", actor |-> "Ann", cut |-> "Foo"],
                [title |-> "-Ann", actor |-> "Ann", cut |-> ""]>>
remove_trail_actor_in_title(title, actors) ==
    IF ~(Truthy("actress", actors) /\ Truthy("title", title)) THEN title
    ELSE IF \E i \in DOMAIN TrailTable :
                TrailTable[i].title = title /\ InList(TrailTable[i].actor, actors)
         THEN TrailTable[CHOOSE i \in DOMAIN TrailTable :
                TrailTable[i].title = title /\ InList(TrailTable[i].actor, actors)].cut
         ELSE title

\* Lines 232-237: every record's title loses its trailing actress name, in place.
StripTitles(c, d, h) ==
    IF ~c.remove_trailing_actor_name THEN h
    ELSE [id \in DOMAIN h |->
            IF \E i \in DOMAIN d : d[i].v = id
            THEN [h[id] EXCEPT !.title = remove_trail_actor_in_title(h[id].title, h[id].actress)]
            ELSE h[id]]

\* Lines 247-265 for one record. The state of the merge is s = [final,
\* covers, big_covers, owner, recs, raised]; owner is the record whose genre
\* list object final.genre is (0: none).
\* Mutant: a later record overwrites an attribute that is already set.
AbsorbPlain_Overwrite(final, data) ==
    [f \in DOMAIN final |->
        IF f \in PlainFields /\ Truthy(f, data[f]) THEN data[f]
        ELSE IF f = "uncensored" /\ data[f] # NONE THEN data[f]
        ELSE final[f]]
\* Mutant: uncensored is filled like the other attributes, while it is falsy.
AbsorbPlain_FalsyFlag(final, data) ==
    [f \in DOMAIN final |->
        IF f \in PlainFields /\ ~Truthy(f, final[f]) /\ Truthy(f, data[f]) THEN data[f]
        ELSE IF f = "uncensored" /\ final[f] # "True" /\ data[f] = "True" THEN data[f]
        ELSE final[f]]
AbsorbPlain(final, data) ==
    [f \in DOMAIN final |->
        IF f \in PlainFields /\ ~Truthy(f, final[f]) /\ Truthy(f, data[f]) THEN data[f]
        ELSE IF f = "uncensored" /\ final[f] = NONE /\ data[f] # NONE THEN data[f]
        ELSE final[f]]
\* Mutant: a cover is appended whether or not the list has it already.
AbsorbOne_NoDedup(s, id, data) ==
    [s EXCEPT
       !.final = AbsorbPlain(@, data),
       !.covers = IF Truthy("cover", data.cover) THEN Append(@, data.cover) ELSE @,
       !.big_covers = IF Truthy("big_cover", data.big_cover)
                      THEN Append(@, data.big_cover) ELSE @,
       !.owner = IF ~Truthy("genre", s.final.genre) /\ Truthy("genre", data.genre)
                 THEN id ELSE @]
AbsorbOne(s, id, data) ==
    [s EXCEPT
       !.final = AbsorbPlain(@, data),
       !.covers = IF Truthy("cover", data.cover) /\ ~InList(data.cover, @)
                  THEN Append(@, data.cover) ELSE @,
       !.big_covers = IF Truthy("big_cover", data.big_cover) /\ ~InList(data.big_cover, @)
                      THEN Append(@, data.big_cover) ELSE @,
       !.owner = IF ~Truthy("genre", s.final.genre) /\ Truthy("genre", data.genre)
                 THEN id ELSE @]
\* Lines 244-267: the records are absorbed in the order of all_info.
RECURSIVE AbsorbAll(_, _)
AbsorbAll(s, d) ==
    IF d = <<>> THEN s
    ELSE AbsorbAll(AbsorbOne(s, Head(d).v, s.recs[Head(d).v]), Tail(d))

\* Lines 271-277: id_weight, the id values of the records with a title, in the
\* order of their first occurrence, each with the names that back it.
RECURSIVE IdWeight(_, _, _, _)
IdWeight(m, d, h, acc) ==
    IF d = <<>> THEN acc
    ELSE LET data == h[Head(d).v]
             key == IF Truthy("dvdid", m.dvdid) THEN data.dvdid ELSE data.cid
             acc2 == IF ~Truthy("title", data.title) THEN acc
                     ELSE IF DictHas(acc, key)
                          THEN DictSet(acc, key, Append(DictGet(acc, key), Head(d).k))
                          ELSE DictSet(acc, key, <<Head(d).k>>)
         IN  IdWeight(m, Tail(d), h, acc2)
\* Mutant: the first id seen wins, whatever the weights.
FinalId_FirstSeen(w) == w[1].k
\* Lines 280-281: the first key of the stable sort by descending weight.
FinalId(w) ==
    w[CHOOSE i \in DOMAIN w :
        /\ \A j \in DOMAIN w : Len(w[j].v) <= Len(w[i].v)
        /\ \A j \in 1..(i-1) : Len(w[j].v) < Len(w[i].v)].k
\* Lines 270-292: the id in use becomes the one most records with a title bear.
WithId(m, final, w) ==
    IF w = <<>> THEN final
    ELSE IF Truthy("dvdid", m.dvdid) THEN [final EXCEPT !.dvdid = FinalId(w)]
    ELSE [final EXCEPT !.cid = FinalId(w)]
RespectSiteAvid(m, c, d, s) ==
    IF ~c.respect_site_avid THEN s
    ELSE [s EXCEPT !.final = WithId(m, @, IdWeight(m, d, s.recs, <<>>))]

\* Lines 295-302: the covers with javdb's removed or moved to the end;
\* list.remove raises ValueError when the javdb cover is not in the list.
JavdbCover(c, covers, javdb_cover) ==
    IF javdb_cover = NONE \/ c.use_javdb_cover = "yes"
    THEN [raised |-> FALSE, covers |-> covers]
    ELSE IF ~InList(javdb_cover, covers)
    THEN [raised |-> TRUE, covers |-> covers]
    ELSE IF c.use_javdb_cover = "fallback"
    THEN [raised |-> FALSE, covers |-> Append(ListRemove(covers, javdb_cover), javdb_cover)]
    ELSE [raised |-> FALSE, covers |-> ListRemove(covers, javdb_cover)]
\* Lines 304-310: the first cover and the first big cover are the final ones.
WithCovers(s, jc) ==
    [s EXCEPT !.raised = jc.raised,
              !.final = [@ EXCEPT !.covers = jc.covers, !.big_covers = s.big_covers,
                                  !.cover = IF jc.covers # <<>> THEN jc.covers[1] ELSE @,
                                  !.big_cover = IF s.big_covers # <<>>
                                                THEN s.big_covers[1] ELSE @]]
\* Lines 295-310
PickCovers(c, d, s) ==
    WithCovers(s, JavdbCover(c, s.covers,
                             IF DictHas(d, javdb) THEN s.recs[DictGet(d, javdb)].cover ELSE NONE))

\* Lines 313-318: the tags appended to final_info.genre.
FlagTags(m) ==
    (IF m.hard_sub THEN <<TagHardSub>> ELSE <<>>) \o
    (IF m.uncensored THEN <<TagUncensored>> ELSE <<>>)

\* Lines 325-326: the dict comprehension over the renamed keys.
RECURSIVE AliasPics(_, _)
AliasPics(pics, acc) ==
    IF pics = <<>> THEN acc
    ELSE AliasPics(Tail(pics), DictSet(acc, resolve_alias(Head(pics).k), Head(pics).v))
MapSeq(seq, Op(_)) == [i \in DOMAIN seq |-> Op(seq[i])]

\* Mutant: only the first required key is checked.
HasRequiredKeys_FirstOnly(c, final) ==
    c.required_keys = <<>> \/ Truthy(c.required_keys[1], final[c.required_keys[1]])
\* Lines 329-332: no required key is empty in final_info.
HasRequiredKeys(c, final) ==
    \A i \in DOMAIN c.required_keys :
        Truthy(c.required_keys[i], final[c.required_keys[i]])

\* Lines 312-318: final_info.genre is a list, with the flag tags appended; the
\* list is the very object of the record that gave it, which changes with it.
WithGenre(s, genre) ==
    [s EXCEPT !.final.genre = genre,
              !.recs = [id \in DOMAIN @ |->
                          IF id = s.owner THEN [@[id] EXCEPT !.genre = genre] ELSE @[id]]]
AppendTags(m, s) ==
    IF s.raised THEN s
    ELSE WithGenre(s, (IF s.final.genre = NoneL THEN <<>> ELSE s.final.genre) \o FlagTags(m))

\* Lines 321-326: the names are replaced by their fixed form; mapping over an
\* actress list that is None raises TypeError.
NormalizeActress(c, s) ==
    IF s.raised \/ ~(c.normalize_actress_name /\ Truthy("actress_pics", s.final.actress_pics))
    THEN s
    ELSE IF s.final.actress = NoneL THEN [s EXCEPT !.raised = TRUE]
    ELSE [s EXCEPT !.final.actress = MapSeq(@, resolve_alias),
                   !.final.actress_pics = AliasPics(@, <<>>)]

\* Lines 222-230: final_info is MovieInfo(movie), with javdb's genre when javdb
\* has one; the lists of covers are empty.
SeededBy(d, h) ==
    IF DictHas(d, javdb) /\ Truthy("genre", h[DictGet(d, javdb)].genre)
    THEN DictGet(d, javdb) ELSE 0
InitialMerge(m, h, owner) ==
    [final |-> [covers |-> <<>>, big_covers |-> <<>>] @@
               (IF owner # 0 THEN [MovieInfoOfMovie(m) EXCEPT !.genre = h[owner].genre]
                ELSE MovieInfoOfMovie(m)),
     covers |-> <<>>, big_covers |-> <<>>, owner |-> owner, recs |-> h, raised |-> FALSE]

\* Lines 222-326 of info_summary: the merged record, before the required keys
\* are checked. d is all_info (name -> record id), h the records. The result
\* holds raised (an exception leaves the function), final (final_info) and
\* recs (the records afterwards).
MergeRecords(m, c, d, h) ==
    NormalizeActress(c,
      AppendTags(m,
        PickCovers(c, d,
          RespectSiteAvid(m, c, d,
            AbsorbAll(InitialMerge(m, StripTitles(c, d, h), SeededBy(d, h)), d)))))

\* Lines 329-335: the check of the required keys and the return.
Outcome(m, c, g) ==
    IF g.raised THEN [ok |-> "raise", info |-> m.info, recs |-> g.recs]
    ELSE IF ~HasRequiredKeys(c, g.final) THEN [ok |-> "False", info |-> m.info, recs |-> g.recs]
    ELSE [ok |-> "True", info |-> <<g.final>>, recs |-> g.recs]
\* info_summary(movie, all_info), lines 220-335. The result is [ok, info,
\* recs]: ok is "True", "False" or "raise" (an exception leaves the
\* function), info is movie.info afterwards (<<>>: not attached) and recs the
\* records afterwards.
info_summary(m, c, d, h) == Outcome(m, c, MergeRecords(m, c, d, h))

\* ------------------------------------------------------------ state
VARIABLES
    cfg,        \* Cfg(): read-only during a run
    movie,      \* the Movie being processed
    movie_in,   \* history: the Movie as RunNormalMode received it
    all_info,   \* parallel_crawler's all_info, then RunNormalMode's: name -> record id
    recs,       \* the MovieInfo objects, by id
    th,         \* the worker threads, by the id of the record they fill
    pool,       \* thread_pool: record ids in start order
    pc,         \* where the main thread is
    joinIdx,    \* index in thread_pool of the thread being joined
    joinStart,  \* the time the current join began
    now,        \* the clock of the join loop, in ticks since the loop began
    marked,     \* history: the record ids that had .success when line 212 ran
    namer_calls, \* history: how many times generate_names ran
    success_count,
    failed_count,
    batch,      \* RunNormalMode's loop over all_movies: [all_movies, at, return_movies, summary]
    cover_dl,   \* the call of download_cover: where it is, what it tried, what it returned
    retry_call  \* the call of a function wrapped by retry_on_error

vars == <<cfg, movie, movie_in, all_info, recs, th, pool, pc, joinIdx, joinStart, now,
          marked, namer_calls, success_count, failed_count, batch, cover_dl, retry_call>>

\* No call of download_cover, and none of a wrapped function, is under way.
NoDownload == [pc |-> "none", i |-> 0, n |-> 0, result |-> NONE, log |-> <<>>]
NoRetryCall ==
    [pc |-> "none", max_retries |-> 0, delay |-> 0, retries |-> 0, slept |-> 0,
     result |-> NONE, log |-> <<>>]

\* Lines 515-519: a batch of one movie, the loop at that movie. The movies of
\* all_movies are numbered from 1; return_movies holds their numbers.
OneMovie == [all_movies |-> <<1>>, at |-> 1, return_movies |-> <<>>, summary |-> NoneD]

\* ------------------------------------------------------------ inputs
Outcomes == {"ok", "not_found", "duplicate", "denied", "network", "unknown"}
TerminalOutcomes == {"not_found", "duplicate", "denied"}

\* The attributes the sites fill in this specification; the values a site
\* writes are tagged with the id of its record.
SiteFields == {"title"}
TitleOf(id) == "T" \o ToString(id)
CoverOf(id) == "U" \o ToString(id)

Selections ==
    {[cid |-> <<fanza>>, normal |-> <<javbus>>],
     [cid |-> <<fanza, javdb>>, normal |-> <<javdb>>]}

Configs ==
    {[selection |-> sel, retry |-> r, timeout |-> t, self_retry |-> sr,
      required_keys |-> rk, respect_site_avid |-> FALSE, use_javdb_cover |-> "yes",
      normalize_actress_name |-> FALSE, remove_trailing_actor_name |-> FALSE] :
        sel \in Selections, r \in 1..MaxRetry, t \in 1..MaxTimeout,
        sr \in {{javbus}}, rk \in {<<>>, <<"title">>}}

Movies ==
    {[data_src |-> "normal", dvdid |-> "ABC-123", cid |-> NONE,
      hard_sub |-> FALSE, uncensored |-> FALSE, info |-> <<>>],
     [data_src |-> "cid", dvdid |-> NONE, cid |-> "abc00123",
      hard_sub |-> FALSE, uncensored |-> FALSE, info |-> <<>>],
     [data_src |-> "cid", dvdid |-> "ABC-123", cid |-> "abc00123",
      hard_sub |-> FALSE, uncensored |-> FALSE, info |-> <<>>]}

Init ==
    /\ cfg \in Configs
    /\ movie \in Movies
    /\ movie_in = movie
    /\ all_info = <<>>
    /\ recs = <<>>
    /\ th = <<>>
    /\ pool = <<>>
    /\ pc = "start"
    /\ joinIdx = 0
    /\ joinStart = 0
    /\ now = 0
    /\ marked = {}
    /\ namer_calls = 0
    /\ success_count = 0
    /\ failed_count = 0
    /\ batch = OneMovie
    /\ cover_dl = NoDownload
    /\ retry_call = NoRetryCall

\* ------------------------------------------------------------ parallel_crawler
\* Lines 173-182: all_info and the records it names.
RECURSIVE DictFromNames(_, _, _)
DictFromNames(names, firstId, acc) ==
    IF names = <<>> THEN acc
    ELSE DictFromNames(Tail(names), firstId + 1, DictSet(acc, Head(names), firstId))
Both(m) == m.data_src = "cid" /\ Truthy("dvdid", m.dvdid)
\* Mutant: every entry of all_info is the same MovieInfo object.
BuildAllInfo_Shared(m, c) ==
    [dict |-> [i \in DOMAIN (c.selection[m.data_src]) |->
                 [k |-> c.selection[m.data_src][i], v |-> 1]],
     recs |-> <<MovieInfoOfMovie(m)>>]
BuildAllInfo(m, c) ==
    LET mods == c.selection[m.data_src]
        n == Len(mods)
        d0 == DictFromNames(mods, 1, <<>>)
        extra == c.selection.normal
    IN  IF Both(m)
        THEN [dict |-> DictFromNames(extra, n + 1, d0),
              recs |-> [id \in 1..(n + Len(extra)) |->
                          IF id <= n THEN [MovieInfoOfMovie(m) EXCEPT !.dvdid = NONE]
                          ELSE MovieInfoOfDvdid(m)]]
        ELSE [dict |-> d0, recs |-> [id \in 1..n |-> MovieInfoOfMovie(m)]]

\* Mutant: parse_data_raw is ignored.
EffectiveRetry_Configured(c, name) == c.retry
\* Lines 189-192: the retry count the worker of a site is started with.
EffectiveRetry(c, name) == IF name \in c.self_retry THEN 1 ELSE c.retry

\* Line 196
JoinTimeoutOf(c) == c.retry * c.timeout

\* Lines 173-194: build all_info and start one thread per entry.
Start ==
    /\ pc = "start"
    /\ LET b == BuildAllInfo(movie, cfg)
       IN  /\ all_info' = b.dict
           /\ recs' = b.recs
           /\ pool' = [i \in DOMAIN b.dict |-> b.dict[i].v]
           /\ th' = [id \in DOMAIN b.recs |->
                       IF \E i \in DOMAIN b.dict : b.dict[i].v = id
                       THEN LET name == b.dict[CHOOSE i \in DOMAIN b.dict : b.dict[i].v = id].k
                            IN  [name |-> name, retry |-> EffectiveRetry(cfg, name), cnt |-> 0,
                                 calls |-> 0, last |-> "none",
                                 pc |-> IF EffectiveRetry(cfg, name) > 0 THEN "loop" ELSE "exit"]
                       ELSE [name |-> <<>>, retry |-> 0, cnt |-> 0, calls |-> 0,
                             last |-> "none", pc |-> "none"]]
           /\ pc' = IF b.dict = <<>> THEN "correct" ELSE "join"
    /\ joinIdx' = 1
    /\ joinStart' = now
    /\ UNCHANGED <<cfg, movie, movie_in, now, marked, namer_calls, success_count, failed_count,
                   batch, cover_dl, retry_call>>

\* ------------------------------------------------------------ wrapper
WorkerFrame == <<cfg, movie, movie_in, all_info, pool, pc, joinIdx, joinStart, now,
                 marked, namer_calls, success_count, failed_count, batch,
                 cover_dl, retry_call>>

\* Lines 146-148: the next iteration of the loop calls parser(info).
WrapperCall(id) ==
    /\ th[id].pc = "loop"
    /\ th' = [th EXCEPT ![id].pc = "parse", ![id].calls = @ + 1]
    /\ UNCHANGED <<recs>>
    /\ UNCHANGED WorkerFrame

\* parser(info) fills attributes of its record while it runs.
ParserWrite(id, f) ==
    /\ th[id].pc = "parse"
    /\ LET val == IF f = "title" THEN TitleOf(id) ELSE CoverOf(id)
       IN  /\ recs[id][f] # val
           /\ recs' = [recs EXCEPT ![id][f] = val]
    /\ UNCHANGED <<th>>
    /\ UNCHANGED WorkerFrame

\* What the two handlers without a break do: the for loop goes on.
NextIteration(t, kind) ==
    [t EXCEPT !.cnt = @ + 1, !.last = kind,
              !.pc = IF t.cnt + 1 < t.retry THEN "loop" ELSE "exit"]

\* Mutant: the loop goes on after the record is marked.
WrapperSuccess_NoBreak(id) ==
    /\ th[id].pc = "parse"
    /\ recs' = [recs EXCEPT ![id].success = TRUE]
    /\ th' = [th EXCEPT ![id] = NextIteration(@, "ok")]
    /\ UNCHANGED WorkerFrame
\* Lines 149-155: parser returned; the record is marked and the loop left.
WrapperSuccess(id) ==
    /\ th[id].pc = "parse"
    /\ recs' = [recs EXCEPT ![id].success = TRUE]
    /\ th' = [th EXCEPT ![id].pc = "exit", ![id].last = "ok"]
    /\ UNCHANGED WorkerFrame

\* Mutant: the handlers of the terminal failures lack their break.
WrapperTerminal_NoBreak(id, kind) ==
    /\ th[id].pc = "parse"
    /\ th' = [th EXCEPT ![id] = NextIteration(@, kind)]
    /\ UNCHANGED <<recs>>
    /\ UNCHANGED WorkerFrame
\* Lines 156-164: MovieNotFoundError, MovieDuplicateError, SiteBlocked and
\* the like: break.
WrapperTerminal(id, kind) ==
    /\ th[id].pc = "parse"
    /\ th' = [th EXCEPT ![id].pc = "exit", ![id].last = kind]
    /\ UNCHANGED <<recs>>
    /\ UNCHANGED WorkerFrame

\* Lines 165-168: requests.exceptions.RequestException.
WrapperNetworkError(id) ==
    /\ th[id].pc = "parse"
    /\ th' = [th EXCEPT ![id] = NextIteration(@, "network")]
    /\ UNCHANGED <<recs>>
    /\ UNCHANGED WorkerFrame

\* Lines 169-170: any other Exception is logged.
WrapperUnknownError(id) ==
    /\ th[id].pc = "parse"
    /\ th' = [th EXCEPT ![id] = NextIteration(@, "unknown")]
    /\ UNCHANGED <<recs>>
    /\ UNCHANGED WorkerFrame

\* ------------------------------------------------------------ the join
JoinFrame == <<cfg, movie, movie_in, all_info, recs, th, pool, marked,
               namer_calls, success_count, failed_count, batch, cover_dl, retry_call>>
AfterJoin == IF joinIdx = Len(pool) THEN "correct" ELSE "join"

\* Line 199: th.join returns at once for a thread that has ended.
JoinReturn ==
    /\ pc = "join"
    /\ th[pool[joinIdx]].pc = "exit"
    /\ pc' = AfterJoin
    /\ joinIdx' = joinIdx + 1
    /\ joinStart' = now
    /\ UNCHANGED now
    /\ UNCHANGED JoinFrame

\* Time passes while the main thread waits in th.join(timeout).
Tick ==
    /\ pc = "join"
    /\ th[pool[joinIdx]].pc # "exit"
    /\ now - joinStart < JoinTimeoutOf(cfg)
    /\ now' = now + 1
    /\ UNCHANGED <<pc, joinIdx, joinStart>>
    /\ UNCHANGED JoinFrame

\* Line 199: th.join gives up once its timeout has passed.
JoinTimeout ==
    /\ pc = "join"
    /\ th[pool[joinIdx]].pc # "exit"
    /\ now - joinStart >= JoinTimeoutOf(cfg)
    /\ pc' = AfterJoin
    /\ joinIdx' = joinIdx + 1
    /\ joinStart' = now
    /\ UNCHANGED now
    /\ UNCHANGED JoinFrame

\* ------------------------------------------------------------ after the join
MainFrame == <<cfg, movie_in, th, pool, batch, cover_dl, retry_call>>

\* Lines 201-210: the data source of a movie that has both ids is settled.
InCidSelection(c, name) == InList(name, c.selection.cid)
\* Mutant: the titles are read from the records of the normal list.
CidTitles_Normal(c, d, h) ==
    [i \in DOMAIN c.selection.normal |-> h[DictGet(d, c.selection.normal[i])].title]
CidTitles(c, d, h) ==
    [i \in DOMAIN c.selection.cid |-> h[DictGet(d, c.selection.cid[i])].title]
AnyTitle(titles) == \E i \in DOMAIN titles : Truthy("title", titles[i])
\* Mutant: a movie made normal keeps its cid.
UpdateDataSrc_KeepsCid ==
    /\ pc = "correct"
    /\ pc' = "collect"
    /\ IF Both(movie)
       THEN IF AnyTitle(CidTitles(cfg, all_info, recs))
            THEN /\ movie' = [movie EXCEPT !.dvdid = NONE]
                 /\ all_info' = DictFilter(all_info, LAMBDA e : InCidSelection(cfg, e.k))
            ELSE /\ movie' = [movie EXCEPT !.data_src = "normal"]
                 /\ all_info' = DictFilter(all_info, LAMBDA e : ~InCidSelection(cfg, e.k))
       ELSE UNCHANGED <<movie, all_info>>
    /\ joinIdx' = 0 /\ joinStart' = 0 /\ now' = 0
    /\ UNCHANGED <<recs, marked, namer_calls, success_count, failed_count>>
    /\ UNCHANGED MainFrame
UpdateDataSrc ==
    /\ pc = "correct"
    /\ pc' = "collect"
    /\ IF Both(movie)
       THEN IF AnyTitle(CidTitles(cfg, all_info, recs))
            THEN /\ movie' = [movie EXCEPT !.dvdid = NONE]
                 /\ all_info' = DictFilter(all_info, LAMBDA e : InCidSelection(cfg, e.k))
            ELSE /\ movie' = [movie EXCEPT !.data_src = "normal", !.cid = NONE]
                 /\ all_info' = DictFilter(all_info, LAMBDA e : ~InCidSelection(cfg, e.k))
       ELSE UNCHANGED <<movie, all_info>>
    /\ joinIdx' = 0 /\ joinStart' = 0 /\ now' = 0
    /\ UNCHANGED <<recs, marked, namer_calls, success_count, failed_count>>
    /\ UNCHANGED MainFrame

\* Line 216: k[4:]
StripKey(k) == SubSeq(k, 5, Len(k))
RECURSIVE RenameKeys(_, _)
RenameKeys(d, acc) ==
    IF d = <<>> THEN acc
    ELSE RenameKeys(Tail(d), DictSet(acc, StripKey(Head(d).k), Head(d).v))
\* Line 212
HasSuccess(h, e) == h[e.v].success
\* Mutant: the records without .success are kept.
Succeeded_KeepAll(d, h) == d
Succeeded(d, h) == DictFilter(d, LAMBDA e : HasSuccess(h, e))

\* Lines 211-217: the records without .success are dropped, the mark is
\* deleted, the keys are renamed and the dict is returned.
Collect ==
    /\ pc = "collect"
    /\ LET kept == Succeeded(all_info, recs)
           ids == {kept[i].v : i \in DOMAIN kept}
       IN  /\ marked' = {id \in DOMAIN recs : recs[id].success}
           /\ recs' = [id \in DOMAIN recs |->
                         IF id \in ids THEN [recs[id] EXCEPT !.success = FALSE] ELSE recs[id]]
           /\ all_info' = RenameKeys(kept, <<>>)
    /\ pc' = "check_crawl"
    /\ UNCHANGED <<movie, joinIdx, joinStart, now, namer_calls, success_count, failed_count>>
    /\ UNCHANGED MainFrame

\* ------------------------------------------------------------ RunNormalMode
StepFrame == <<cfg, movie_in, th, pool, joinIdx, joinStart, now, marked, cover_dl, retry_call>>

\* Mutant: an exception in a step leaves the loop over the movies.
Failed_Aborts ==
    /\ pc' = "returned"
    /\ failed_count' = failed_count + 1
    /\ UNCHANGED success_count
\* Lines 618-629: an exception in a step ends the movie as failed.
Failed ==
    /\ pc' = "done"
    /\ failed_count' = failed_count + 1
    /\ UNCHANGED success_count

\* Mutant: the result of the crawl is not checked.
CheckCrawl_Unchecked ==
    /\ pc = "check_crawl"
    /\ pc' = "summary"
    /\ UNCHANGED <<movie, all_info, recs, namer_calls, success_count, failed_count, batch>>
    /\ UNCHANGED <<cfg, movie_in, th, pool, joinIdx, joinStart, now, marked, cover_dl,
                   retry_call>>
\* Lines 527-529: check_step(all_info, msg)
CheckCrawl ==
    /\ pc = "check_crawl"
    /\ IF all_info # <<>>
       THEN pc' = "summary" /\ UNCHANGED <<success_count, failed_count>>
       ELSE Failed
    /\ UNCHANGED <<movie, all_info, recs, namer_calls, batch>>
    /\ UNCHANGED StepFrame

\* Lines 532-533: info_summary and its check_step.
CheckSummary(r) ==
    /\ movie' = [movie EXCEPT !.info = r.info]
    /\ recs' = r.recs
    /\ IF r.ok = "True"
       THEN pc' = "translate" /\ UNCHANGED <<success_count, failed_count>>
       ELSE Failed
Summarize ==
    /\ pc = "summary"
    /\ CheckSummary(info_summary(movie, cfg, all_info, recs))
    /\ UNCHANGED <<all_info, namer_calls, batch>>
    /\ UNCHANGED StepFrame

\* Lines 538-541: the translation, when an engine is configured, may fail.
Translate(ok) ==
    /\ pc = "translate"
    /\ IF ok
       THEN pc' = "names" /\ UNCHANGED <<success_count, failed_count>>
       ELSE Failed
    /\ UNCHANGED <<movie, all_info, recs, namer_calls, batch>>
    /\ UNCHANGED StepFrame

\* Line 543: generate_names(movie)
GenerateNames ==
    /\ pc = "names"
    /\ namer_calls' = namer_calls + 1
    /\ pc' = "files"
    /\ UNCHANGED <<movie, all_info, recs, success_count, failed_count, batch>>
    /\ UNCHANGED StepFrame

\* Lines 544-617: the steps on files (cover, poster, nfo, moving) succeed
\* or raise. Lines 612-614: a movie that passed them all is counted and
\* appended to return_movies.
FileSteps(ok) ==
    /\ pc = "files"
    /\ IF ok
       THEN /\ pc' = "done" /\ success_count' = success_count + 1 /\ UNCHANGED failed_count
            /\ batch' = [batch EXCEPT !.return_movies = Append(@, batch.all_movies[batch.at])]
       ELSE Failed /\ UNCHANGED batch
    /\ UNCHANGED <<movie, all_info, recs, namer_calls>>
    /\ UNCHANGED StepFrame

\* ------------------------------------------------------------ specification
Worker ==
    \E id \in DOMAIN th :
        \/ WrapperCall(id)
        \/ \E f \in SiteFields : ParserWrite(id, f)
        \/ WrapperSuccess(id)
        \/ \E kind \in TerminalOutcomes : WrapperTerminal(id, kind)
        \/ WrapperNetworkError(id)
        \/ WrapperUnknownError(id)

Next ==
    \/ Start
    \/ (pc # "done" /\ Worker)
    \/ JoinReturn
    \/ Tick
    \/ JoinTimeout
    \/ UpdateDataSrc
    \/ Collect
    \/ CheckCrawl
    \/ Summarize
    \/ \E ok \in BOOLEAN : Translate(ok)
    \/ GenerateNames
    \/ \E ok \in BOOLEAN : FileSteps(ok)

Spec == Init /\ [][Next]_vars

\* ------------------------------------------------------------ info_summary alone
\* The second specification calls info_summary on records drawn from small
\* sets of attribute values, in four families that each vary the attributes
\* one part of the function reads.
Pics == <<[k |-> "Annie", v |-> "P1"], [k |-> "Ann", v |-> "P2"]>>
TextRecs(m) ==
    {[MovieInfoOfMovie(m) EXCEPT !.title = t, !.actress = a, !.actress_pics = p] :
        t \in {NONE, "", "Foo", "Foo Ann", "-Ann"},
        a \in {NoneL, <<"Ann">>, <<"Annie">>},
        p \in {NoneD, Pics}}
TagRecs(m) ==
    {[MovieInfoOfMovie(m) EXCEPT !.genre = g, !.plot = t, !.uncensored = u] :
        g \in {NoneL, <<>>, <<"drama">>, <<"comedy">>},
        t \in {NONE, "P1", "P2"},
        u \in {NONE, "True", "False"}}
IdRecs(m) ==
    {[MovieInfoOfMovie(m) EXCEPT !.dvdid = dv, !.cid = ci, !.title = t] :
        dv \in {NONE, "ABC-123", "ABC-124"},
        ci \in {NONE, "abc00123"},
        t \in {NONE, "Foo"}}
CoverRecs(m) ==
    {[MovieInfoOfMovie(m) EXCEPT !.cover = cv, !.big_cover = b, !.title = t] :
        cv \in {NONE, "", "U1", "U2"},
        b \in {NONE, "B1", "B2"},
        t \in {NONE, "Foo"}}

MergeMovies ==
    {[data_src |-> src, dvdid |-> IF src = "normal" THEN "ABC-123" ELSE NONE,
      cid |-> IF src = "cid" THEN "abc00123" ELSE NONE,
      hard_sub |-> hs, uncensored |-> un, info |-> <<>>] :
        src \in {"normal", "cid"}, hs \in BOOLEAN, un \in BOOLEAN}
BaseCfg ==
    [selection |-> [cid |-> <<fanza>>, normal |-> <<javbus>>], retry |-> 1, timeout |-> 1,
     self_retry |-> {javbus}, required_keys |-> <<>>, respect_site_avid |-> FALSE,
     use_javdb_cover |-> "yes", normalize_actress_name |-> FALSE,
     remove_trailing_actor_name |-> FALSE]
\* Each family: the movies, the configurations, the key orders and the records.
TextFamily ==
    [movies |-> {m \in MergeMovies : ~m.hard_sub /\ ~m.uncensored /\ m.data_src = "normal"},
     cfgs |-> {[BaseCfg EXCEPT !.remove_trailing_actor_name = rt,
                               !.normalize_actress_name = na, !.required_keys = rk] :
                 rt \in BOOLEAN, na \in BOOLEAN,
                 rk \in {<<>>, <<"title">>, <<"actress", "title">>}},
     keys |-> {<<fanza, javbus>>}]
TagFamily ==
    [movies |-> {m \in MergeMovies : m.data_src = "normal"},
     cfgs |-> {[BaseCfg EXCEPT !.required_keys = rk] :
                 rk \in {<<>>, <<"genre">>, <<"plot", "genre">>}},
     keys |-> {<<fanza, javbus>>, <<javbus, javdb>>, <<javdb, javbus>>}]
IdFamily ==
    [movies |-> {m \in MergeMovies : ~m.hard_sub /\ ~m.uncensored},
     cfgs |-> {[BaseCfg EXCEPT !.respect_site_avid = ra, !.required_keys = rk] :
                 ra \in BOOLEAN, rk \in {<<>>, <<"title">>}},
     keys |-> {<<fanza, javbus>>, <<fanza, javbus, javdb>>}]
CoverFamily ==
    [movies |-> {m \in MergeMovies : ~m.hard_sub /\ ~m.uncensored /\ m.data_src = "normal"},
     cfgs |-> {[BaseCfg EXCEPT !.use_javdb_cover = mode, !.required_keys = rk] :
                 mode \in {"yes", "fallback", "no"},
                 rk \in {<<>>, <<"cover">>, <<"title", "cover">>}},
     keys |-> {<<fanza, javdb>>, <<javdb, fanza>>, <<fanza, javbus, javdb>>}]

InitMergeWith(fam, Recs(_)) ==
    /\ movie \in fam.movies
    /\ cfg \in fam.cfgs
    /\ \E ks \in fam.keys :
          /\ all_info = [i \in DOMAIN ks |-> [k |-> ks[i], v |-> i]]
          /\ recs \in [DOMAIN ks -> Recs(movie)]
InitMerge ==
    /\ \/ InitMergeWith(TextFamily, TextRecs)
       \/ InitMergeWith(TagFamily, TagRecs)
       \/ InitMergeWith(IdFamily, IdRecs)
       \/ InitMergeWith(CoverFamily, CoverRecs)
    /\ movie_in = movie
    /\ th = <<>>
    /\ pool = <<>>
    /\ pc = "summary"
    /\ joinIdx = 0
    /\ joinStart = 0
    /\ now = 0
    /\ marked = DOMAIN recs
    /\ namer_calls = 0
    /\ success_count = 0
    /\ failed_count = 0
    /\ batch = OneMovie
    /\ cover_dl = NoDownload
    /\ retry_call = NoRetryCall

NextMerge == Summarize

SpecMerge == InitMerge /\ [][NextMerge]_vars

\* ------------------------------------------------------------ properties
Returned == pc \in {"check_crawl", "summary", "translate", "names", "files", "done"}
Workers == {id \in DOMAIN th : th[id].pc # "none"}
\* The records MovieInfo(movie.dvdid) made, for the sites of the normal list.
IsStdRec(id) == Both(movie_in) /\ id > Len(cfg.selection.cid)

\* The index in all_info of the first record whose attribute f is not empty
\* (0: there is none).
FirstNonEmpty(f) ==
    LET idx == {i \in DOMAIN all_info : Truthy(f, recs[all_info[i].v][f])}
    IN  IF idx = {} THEN 0 ELSE CHOOSE i \in idx : \A j \in idx : i <= j
\* The attributes the claim sets apart, among those of the generic rule.
SeededByJavdb ==
    DictHas(all_info, javdb) /\ Truthy("genre", recs[DictGet(all_info, javdb)].genre)
IdInUse == IF Truthy("dvdid", movie.dvdid) THEN "dvdid" ELSE "cid"
SpecialAsStated(f) ==
    \/ f = "genre" /\ SeededByJavdb
    \/ f = IdInUse /\ cfg.respect_site_avid

\* C1 (as stated): after a successful merge every attribute of the generic
\* rule, the tags seeded by javdb and the resolved id apart, has the value of
\* the first record, in the order of all_info, in which it is not empty.
C1_AsStated ==
    pc = "translate" =>
        \A f \in PlainFields :
            (~SpecialAsStated(f) /\ FirstNonEmpty(f) # 0) =>
                movie.info[1][f] = recs[all_info[FirstNonEmpty(f)].v][f]
\* C1 (amended): the same, with three more cases set apart: the tags when a
\* flag tag is appended, the actresses and their pictures when names are
\* normalized, and an id the movie itself already gives, which is the value
\* final_info starts with and no record overwrites.
C1_FirstNonEmptyWins ==
    pc = "translate" =>
        \A f \in PlainFields :
            \/ SpecialAsStated(f)
            \/ f = "genre" /\ (movie.hard_sub \/ movie.uncensored)
            \/ f \in {"actress", "actress_pics"} /\ cfg.normalize_actress_name
            \/ LET own == IF f \in {"dvdid", "cid"} THEN movie[f] ELSE NONE
               IN  IF f \in {"dvdid", "cid"} /\ own \notin {NONE, ""}
                   THEN movie.info[1][f] = own
                   ELSE IF FirstNonEmpty(f) # 0
                   THEN movie.info[1][f] = recs[all_info[FirstNonEmpty(f)].v][f]
                   ELSE ~Truthy(f, movie.info[1][f])
\* C1 witness: the merged title is the second record's, the first having an
\* empty one, and the merged actresses are the first record's, not the second's.
C1_Witness ==
    /\ pc = "translate"
    /\ Len(all_info) = 2
    /\ recs[1].title = "" /\ recs[2].title = "Foo" /\ movie.info[1].title = "Foo"
    /\ recs[1].actress = <<"Annie">> /\ recs[2].actress = <<"Ann">>
    /\ movie.info[1].actress = <<"Annie">>

\* C5: info_summary fails exactly when a required key is empty in the merged
\* record; then movie.info is untouched, otherwise it is the merged record.
C5_RequiredKeys ==
    [][pc = "summary" =>
         LET g == MergeRecords(movie, cfg, all_info, recs)
             missing == \E i \in DOMAIN cfg.required_keys :
                            ~Truthy(cfg.required_keys[i], g.final[cfg.required_keys[i]])
         IN  ~g.raised =>
                /\ (pc' = "done") <=> missing
                /\ missing => movie'.info = movie.info /\ failed_count' = failed_count + 1
                /\ ~missing => movie'.info = <<g.final>> /\ pc' = "translate"]_vars
\* C5 witness: the merge failed because of the second of two required keys:
\* a title was found and no cover.
C5_Witness ==
    /\ pc = "done" /\ failed_count = 1
    /\ movie.info = <<>>
    /\ cfg.required_keys = <<"title", "cover">>
    /\ cfg.use_javdb_cover = "yes"
    /\ \E id \in DOMAIN recs : recs[id].title = "Foo"
    /\ \A id \in DOMAIN recs : recs[id].cover = NONE

\* C2: the map parallel_crawler returns holds only records that had .success
\* when line 212 ran, so the title of the final record is the movie's own or
\* was written by a site whose record was marked then.
C2_OnlyMarkedSurvive ==
    Returned =>
        /\ \A i \in DOMAIN all_info : all_info[i].v \in marked
        /\ movie.info # <<>> =>
              movie.info[1].title \in {NONE} \cup {TitleOf(id) : id \in marked}
\* C2 witness: a final record is attached while a site that was never marked,
\* and is still running, has written a title into its record.
C2_Witness ==
    /\ pc = "translate"
    /\ movie.info # <<>>
    /\ \E id \in Workers :
          /\ id \notin marked
          /\ th[id].pc = "parse"
          /\ recs[id].title = TitleOf(id)

\* C3 (as stated): for a movie with both ids, a title from a site of the normal
\* list makes the movie normal and drops the records of the cid sites;
\* otherwise the movie stays cid and the records of the normal sites go.
C3_AsStated ==
    [][(pc = "correct" /\ pc' = "collect" /\ Both(movie)) =>
         IF \E id \in Workers : IsStdRec(id) /\ Truthy("title", recs[id].title)
         THEN /\ movie'.data_src = "normal"
              /\ \A i \in DOMAIN all_info' : IsStdRec(all_info'[i].v)
         ELSE /\ movie'.data_src = "cid"
              /\ \A i \in DOMAIN all_info' : ~IsStdRec(all_info'[i].v)]_vars
\* C3 (amended): it is a title in the record of a site of the cid list that
\* decides: with one the movie stays cid, loses its dvdid and keeps exactly the
\* entries whose name is in the cid list; without one the movie becomes
\* normal, loses its cid and keeps exactly the other entries.
C3_CidTitleDecides ==
    [][(pc = "correct" /\ pc' = "collect" /\ Both(movie)) =>
         LET cidNames == {cfg.selection.cid[i] : i \in DOMAIN cfg.selection.cid}
             entries == {all_info[i] : i \in DOMAIN all_info}
             entries2 == {all_info'[i] : i \in DOMAIN all_info'}
         IN  IF \E e \in entries : e.k \in cidNames /\ recs[e.v].title \notin {NONE, ""}
             THEN /\ movie' = [movie EXCEPT !.dvdid = NONE]
                  /\ entries2 = {e \in entries : e.k \in cidNames}
             ELSE /\ movie' = [movie EXCEPT !.data_src = "normal", !.cid = NONE]
                  /\ entries2 = {e \in entries : e.k \notin cidNames}]_vars
\* C3 witness: the movie was kept as cid, and the records of the normal list
\* dropped, although a site of the normal list had returned a title.
C3_Witness ==
    /\ pc = "collect"
    /\ Both(movie_in)
    /\ movie.data_src = "cid" /\ movie.dvdid = NONE
    /\ \E id \in Workers : IsStdRec(id) /\ recs[id].success /\ recs[id].title = TitleOf(id)
    /\ \A i \in DOMAIN all_info : InCidSelection(cfg, all_info[i].k)

\* C4: every key of the returned map is the configured name of the site that
\* filled the record.
C4_BareKeys ==
    Returned => \A i \in DOMAIN all_info : all_info[i].k = th[all_info[i].v].name

\* C6: generate_names runs only for a movie whose crawl returned a record and
\* whose merged record has every required key; a movie without either is
\* counted as failed and never named.
C6_NamerAfterSuccess ==
    /\ namer_calls > 0 =>
          /\ marked # {}
          /\ movie.info # <<>>
          /\ \A i \in DOMAIN cfg.required_keys :
                movie.info[1][cfg.required_keys[i]] \notin {NONE, ""}
    /\ (pc = "done" /\ (marked = {} \/ movie.info = <<>>)) =>
          failed_count = 1 /\ success_count = 0 /\ namer_calls = 0
\* C6 witness: a movie was named, and its record has the required title.
C6_Witness ==
    /\ namer_calls = 1
    /\ cfg.required_keys = <<"title">>
    /\ pc = "done" /\ success_count = 1

\* C7: once parser raised an unclassified exception the worker does not call
\* it again.
C7_NoRetryAfterUnknown ==
    [][\A id \in DOMAIN th :
          th[id].last = "unknown" => th'[id].calls = th[id].calls]_vars

\* C8: a worker calls parser at most retry times, once if the site has
\* parse_data_raw; it ends after a network error only when no attempt is
\* left, and a success ends it.
C8_AtMostRetryCalls ==
    \A id \in Workers :
        /\ th[id].calls <= (IF th[id].name \in cfg.self_retry THEN 1 ELSE cfg.retry)
        /\ (th[id].last = "network" /\ th[id].pc = "exit") =>
              th[id].calls = (IF th[id].name \in cfg.self_retry THEN 1 ELSE cfg.retry)
        /\ th[id].last = "ok" => th[id].pc = "exit"
\* C8 witness: one site succeeded at its second and last attempt while the
\* self-retrying site gave up after one network error.
C8_Witness ==
    /\ cfg.retry = 2
    /\ \E id \in Workers : th[id].calls = 2 /\ th[id].last = "ok"
    /\ \E id \in Workers :
          /\ th[id].name \in cfg.self_retry
          /\ th[id].calls = 1 /\ th[id].last = "network" /\ th[id].pc = "exit"

\* C9: a not-found, duplicate or access-denied failure ends the worker with
\* the record unmarked, and only a call that returned marks a record.
C9_TerminalFailures ==
    \A id \in Workers :
        /\ th[id].last \in TerminalOutcomes =>
              th[id].pc = "exit" /\ ~recs[id].success /\ id \notin marked
        /\ (recs[id].success \/ id \in marked) => th[id].last = "ok"
\* C9 witness: a worker ended on a terminal failure with attempts left.
C9_Witness ==
    \E id \in Workers :
        /\ th[id].last \in TerminalOutcomes
        /\ th[id].calls < th[id].retry
        /\ th[id].pc = "exit"

\* C10: the join loop waits at most retry x timeout in all.
C10_JoinBudget ==
    pc \in {"join", "correct"} => now <= cfg.retry * cfg.timeout

\* The ids of the records in the map.
MapIds == {all_info[i].v : i \in DOMAIN all_info}

\* C11: once parallel_crawler has returned, the worker of every record in the
\* returned map has ended and takes no further step, so whatever a worker
\* still writes goes to a record that is not in the map.
C11_NoWriteAfterSelection ==
    [][Returned =>
         \A id \in MapIds :
            /\ th[id].pc = "exit"
            /\ th'[id] = th[id]
            /\ (recs'[id] # recs[id] => pc = "summary")]_vars
\* C11 witness: the map was returned with a record in it while an abandoned
\* worker, in its second call after a network error, has written a title
\* into its own record, which is not in the map.
C11_Witness ==
    /\ Returned /\ all_info # <<>>
    /\ \E id \in Workers :
          /\ id \notin MapIds
          /\ th[id].pc = "parse" /\ th[id].calls = 2 /\ th[id].last = "network"
          /\ recs[id].title = TitleOf(id)

\* C12: one thread is started per entry of all_info, each entry has a record
\* of its own, also when a name is in both lists, and a step of one worker,
\* a failure included, leaves every other worker and every other record as
\* they were.
C12_OneWorkerPerRecord ==
    [][/\ pc = "join" =>
            /\ \A i, j \in DOMAIN pool : pool[i] = pool[j] => i = j
            /\ {pool[i] : i \in DOMAIN pool} = MapIds
            /\ Workers = MapIds
            /\ \A i \in DOMAIN all_info : th[all_info[i].v].name = all_info[i].k
       /\ \A id \in DOMAIN th :
            th'[id] # th[id] =>
               \A other \in DOMAIN th \ {id} :
                  th'[other] = th[other] /\ recs'[other] = recs[other]]_vars
\* C12 witness: javdb is in both lists and has one worker; it failed for good
\* while the worker of the other site, untouched, went on to succeed.
C12_Witness ==
    /\ pc = "join"
    /\ Both(movie_in) /\ InList(javdb, cfg.selection.cid) /\ InList(javdb, cfg.selection.normal)
    /\ Len(pool) = 2
    /\ \E a, b \in Workers :
          /\ a # b
          /\ th[a].name = javdb /\ th[a].last = "unknown" /\ th[a].pc = "exit"
          /\ th[b].last = "ok" /\ recs[b].success /\ ~recs[a].success

\* What parallel_crawler gives when every marked worker has ended before the
\* join loop does: the data source is settled on the records as they are now,
\* and the marked records are kept in the order of the configured lists.
CanonCid == AnyTitle(CidTitles(cfg, BuildAllInfo(movie_in, cfg).dict, recs))
CanonMovie ==
    IF ~Both(movie_in) THEN movie_in
    ELSE IF CanonCid THEN [movie_in EXCEPT !.dvdid = NONE]
    ELSE [movie_in EXCEPT !.data_src = "normal", !.cid = NONE]
CanonKept(e) ==
    /\ e.v \in marked
    /\ Both(movie_in) => (InCidSelection(cfg, e.k) <=> CanonCid)
CanonMap == RenameKeys(SelectSeq(BuildAllInfo(movie_in, cfg).dict, CanonKept), <<>>)

\* C13: with the marked records and the contents of the records given (no
\* unmarked record holds a title), the final record is the one obtained when
\* all marked workers end before the join does, whatever the moment and the
\* order in which they ended.
C13_OrderIndependent ==
    (pc = "translate" /\ \A id \in Workers : recs[id].title # NONE => id \in marked) =>
        /\ all_info = CanonMap
        /\ movie.info = <<MergeRecords(CanonMovie, cfg, CanonMap, recs).final>>

\* C14: info_summary leaves every record it is given as it was, whether it
\* returns True, returns False or raises.
C14_RecordsUntouched ==
    [][pc = "summary" => recs' = recs]_vars

\* ------------------------------------------------------------ after the join
\* The third specification starts where the join loop has ended with every
\* worker done at its first call, and runs the rest of parallel_crawler and
\* info_summary on records whose title and tags the sites have filled.
SiteGenres == {NoneL, <<"drama">>, <<"comedy">>}
\* What a worker that has ended left in its record.
FilledRecs(fresh) ==
    {[fresh EXCEPT !.title = t, !.genre = g, !.success = ok] :
        t \in {NONE, "Foo"}, g \in SiteGenres, ok \in BOOLEAN}
EndedThread(c, name, ok) ==
    [name |-> name, retry |-> EffectiveRetry(c, name), cnt |-> 0, calls |-> 1,
     last |-> IF ok THEN "ok" ELSE "not_found", pc |-> "exit"]
NoThread == [name |-> <<>>, retry |-> 0, cnt |-> 0, calls |-> 0, last |-> "none", pc |-> "none"]
\* A selection with two sites whose names are no longer than four characters.
ShortNames == [cid |-> <<fanza>>, normal |-> <<njav, fc2>>]
AfterJoinConfigs ==
    {c \in Configs : c.retry = 1 /\ c.timeout = 1 /\ c.required_keys = <<>>} \cup
    {[c EXCEPT !.selection = ShortNames] :
        c \in {c2 \in Configs : c2.retry = 1 /\ c2.timeout = 1 /\ c2.required_keys = <<>>}}
InitAfterJoin ==
    /\ cfg \in AfterJoinConfigs
    /\ movie \in Movies
    /\ movie_in = movie
    /\ all_info = BuildAllInfo(movie, cfg).dict
    /\ pool = [i \in DOMAIN all_info |-> all_info[i].v]
    /\ recs \in [DOMAIN BuildAllInfo(movie, cfg).recs ->
                   UNION {FilledRecs(BuildAllInfo(movie, cfg).recs[id]) :
                            id \in DOMAIN BuildAllInfo(movie, cfg).recs}]
    /\ \A id \in DOMAIN recs :
          IF \E i \in DOMAIN all_info : all_info[i].v = id
          THEN recs[id] \in FilledRecs(BuildAllInfo(movie, cfg).recs[id])
          ELSE recs[id] = BuildAllInfo(movie, cfg).recs[id]
    /\ th = [id \in DOMAIN recs |->
               IF \E i \in DOMAIN all_info : all_info[i].v = id
               THEN EndedThread(cfg, all_info[CHOOSE i \in DOMAIN all_info : all_info[i].v = id].k,
                                recs[id].success)
               ELSE NoThread]
    /\ pc = "correct"
    /\ joinIdx = Len(pool) + 1
    /\ joinStart = 0
    /\ now = 0
    /\ marked = {}
    /\ namer_calls = 0
    /\ success_count = 0
    /\ failed_count = 0
    /\ batch = OneMovie
    /\ cover_dl = NoDownload
    /\ retry_call = NoRetryCall
NextAfterJoin ==
    \/ UpdateDataSrc
    \/ Collect
    \/ CheckCrawl
    \/ Summarize
SpecAfterJoin == InitAfterJoin /\ [][NextAfterJoin]_vars

\* C15: when javdb's record is marked and holds tags, the tags of the final
\* record made from what parallel_crawler returned are javdb's and no others.
C15_JavdbSeedsTags ==
    pc = "translate" =>
        \A id \in marked :
            (id \in MapIds /\ th[id].name = javdb /\ Truthy("genre", recs[id].genre)) =>
                movie.info[1].genre = recs[id].genre

\* ------------------------------------------------------------ covers
\* The record at position i of all_info.
RecAt(i) == recs[all_info[i].v]
\* The position of the first record of all_info whose attribute f is u.
FirstSeenAt(f, u) ==
    CHOOSE i \in DOMAIN all_info : RecAt(i)[f] = u /\ \A j \in 1..(i-1) : RecAt(j)[f] # u
\* javdb's cover, when lines 295-302 act on it, in a set; else the empty set.
JavdbHandled ==
    IF /\ DictHas(all_info, javdb)
       /\ recs[DictGet(all_info, javdb)].cover # NONE
       /\ cfg.use_javdb_cover # "yes"
    THEN {recs[DictGet(all_info, javdb)].cover} ELSE {}
\* lst holds, once each, the non-empty values of attribute f of the records
\* (those of absent apart), the values outside moved in first-seen order.
FirstSeenList(f, lst, absent, moved) ==
    /\ \A i, j \in DOMAIN lst : lst[i] = lst[j] => i = j
    /\ {lst[i] : i \in DOMAIN lst} =
          {RecAt(i)[f] : i \in {j \in DOMAIN all_info : Truthy(f, RecAt(j)[f])}} \ absent
    /\ \A i, j \in DOMAIN lst :
          (i < j /\ lst[i] \notin moved /\ lst[j] \notin moved) =>
              FirstSeenAt(f, lst[i]) < FirstSeenAt(f, lst[j])

\* C16: in the final record the list of covers and the list of big covers
\* hold each URL once, in the order in which the records, walked in the order
\* of all_info, first gave them, javdb's cover apart when it is removed or
\* moved; the cover and the big cover are the first of their list, if any.
C16_CoverLists ==
    pc = "translate" =>
        /\ FirstSeenList("cover", movie.info[1].covers,
                         IF cfg.use_javdb_cover = "no" THEN JavdbHandled ELSE {}, JavdbHandled)
        /\ FirstSeenList("big_cover", movie.info[1].big_covers, {}, {})
        /\ movie.info[1].covers # <<>> => movie.info[1].cover = movie.info[1].covers[1]
        /\ movie.info[1].big_covers # <<>> => movie.info[1].big_cover = movie.info[1].big_covers[1]
\* C16 witness: three records gave U2, U1, U2 and B2, B1, B2: the lists are
\* U2, U1 and B2, B1.
C16_Witness ==
    /\ pc = "translate"
    /\ Len(all_info) = 3
    /\ \A i \in 1..3 : RecAt(i).cover = <<"U2", "U1", "U2">>[i]
    /\ \A i \in 1..3 : RecAt(i).big_cover = <<"B2", "B1", "B2">>[i]
    /\ movie.info[1].covers = <<"U2", "U1">> /\ movie.info[1].big_covers = <<"B2", "B1">>
    /\ movie.info[1].cover = "U2" /\ movie.info[1].big_cover = "B2"

\* The positions of all_info that are not javdb's.
OtherSites == {i \in DOMAIN all_info : all_info[i].k # javdb}
\* C17: when javdb is among the records with a cover, its cover is last in
\* fallback mode, absent in no mode and where it was in yes mode, and in
\* every mode the covers of the other sites are all in the list, in the order
\* in which those sites first gave them.
C17_JavdbCover ==
    (pc = "translate" /\ DictHas(all_info, javdb)
       /\ Truthy("cover", recs[DictGet(all_info, javdb)].cover)) =>
        LET covers == movie.info[1].covers
            jc == recs[DictGet(all_info, javdb)].cover
            others == {RecAt(i).cover : i \in {j \in OtherSites : Truthy("cover", RecAt(j).cover)}}
            At(u) == CHOOSE i \in DOMAIN covers : covers[i] = u
            FirstOther(u) == CHOOSE i \in OtherSites :
                                /\ RecAt(i).cover = u
                                /\ \A j \in OtherSites : RecAt(j).cover = u => i <= j
        IN  /\ cfg.use_javdb_cover = "fallback" => covers[Len(covers)] = jc
            /\ cfg.use_javdb_cover = "no" => ~InList(jc, covers)
            /\ cfg.use_javdb_cover = "yes" => FirstSeenList("cover", covers, {}, {})
            /\ \A u \in others : InList(u, covers)
            /\ \A u, v \in others :
                  (InList(u, covers) /\ InList(v, covers) /\ FirstOther(u) < FirstOther(v)) =>
                      At(u) < At(v)

\* ------------------------------------------------------------ final id
\* The positions of all_info whose record has a title.
Titled == {i \in DOMAIN all_info : Truthy("title", RecAt(i).title)}
\* The positions with a title whose record bears the id v, in the id in use.
Backers(v) == {i \in Titled : RecAt(i)[IdInUse] = v}
FirstBacker(v) == CHOOSE i \in Backers(v) : \A j \in Backers(v) : i <= j
C18_TieWitness ==
    /\ pc = "translate" /\ cfg.respect_site_avid
    /\ Len(all_info) = 2 /\ Titled = {1, 2}
    /\ RecAt(1).dvdid = "ABC-124" /\ RecAt(2).dvdid = "ABC-123"
    /\ movie.info[1].dvdid = "ABC-124"

\* C19: the final uncensored is that of the first record, in the order of
\* all_info, in which it is not None, be it False, and None if there is none.
C19_FirstDecidedFlag ==
    pc = "translate" =>
        LET decided == {i \in DOMAIN all_info : RecAt(i).uncensored # NONE}
        IN  IF decided = {} THEN movie.info[1].uncensored = NONE
            ELSE movie.info[1].uncensored =
                    RecAt(CHOOSE i \in decided : \A j \in decided : i <= j).uncensored
\* C19 witness: the first record says False and the second True: False.
C19_Witness ==
    /\ pc = "translate"
    /\ Len(all_info) = 2
    /\ RecAt(1).uncensored = "False" /\ RecAt(2).uncensored = "True"
    /\ movie.info[1].uncensored = "False"

\* ------------------------------------------------------------ generate_names
\* Strings that make up paths are sequences of characters. The fourth
\* specification calls generate_names on a movie whose final record carries
\* the chunks of its title and of its raw title.
NL == "\n"
Whitespace == {NL, " "}
\* str.strip()
RECURSIVE LStrip(_)
LStrip(str) == IF str # <<>> /\ Head(str) \in Whitespace THEN LStrip(Tail(str)) ELSE str
RECURSIVE RStrip(_)
RStrip(str) ==
    IF str # <<>> /\ str[Len(str)] \in Whitespace THEN RStrip(SubSeq(str, 1, Len(str) - 1))
    ELSE str
Strip(str) == RStrip(LStrip(str))
\* replace_illegal_chars: a character a file name cannot hold becomes one it can.
replace_illegal_chars(str) == [i \in DOMAIN str |-> IF str[i] = "?" THEN "_" ELSE str[i]]
\* ''.join(chunks[:n])
RECURSIVE JoinChunks(_, _)
JoinChunks(chunks, n) ==
    IF n = 0 THEN <<>> ELSE JoinChunks(chunks, n - 1) \o chunks[n]
\* str[:n], for any integer n
SliceTo(str, n) ==
    IF n >= 0 THEN SubSeq(str, 1, IF n < Len(str) THEN n ELSE Len(str))
    ELSE SubSeq(str, 1, IF Len(str) + n > 0 THEN Len(str) + n ELSE 0)
\* Lines 340-345: legalize_path drops the newlines.
legalize_path(path) == SelectSeq(path, LAMBDA ch : ch # NL)
\* pattern.format(**copyd): a pattern is a sequence of literal texts and fields.
RECURSIVE Format(_, _)
Format(pattern, copyd) ==
    IF pattern = <<>> THEN <<>>
    ELSE (IF Head(pattern).kind = "field" THEN copyd[Head(pattern).val[1]]
          ELSE Head(pattern).val) \o Format(Tail(pattern), copyd)
\* os.path.normpath, on paths without separators or dots: '' becomes '.'.
Normpath(path) == IF path = <<>> THEN <<".">> ELSE path
\* os.path.join of a directory that is not empty and a name.
PathJoin(dir, name) == dir \o <<"/">> \o name
\* os.path.abspath of a relative path: the working directory comes first.
Cwd == <<"/", "w">>
Abspath(path) == IF path # <<>> /\ Head(path) = "/" THEN path ELSE PathJoin(Cwd, path)
\* get_remaining_path_len: what the longest path allowed leaves.
get_remaining_path_len(c, path) == c.max_path - Len(path)

\* Lines 398-406 and 424-431: the directory and the base name for copyd.
SaveDir(m, c, copyd) ==
    IF c.move_files THEN Strip(Normpath(Format(c.output_folder_pattern, copyd)))
    ELSE m.files[1].dir
Basename(m, c, copyd) ==
    IF c.move_files THEN Strip(Normpath(Format(c.basename_pattern, copyd)))
    ELSE m.files[1].stem
\* Line 393: the longest extension of the files, the first among equals.
LongestExt(m) ==
    m.files[CHOOSE i \in DOMAIN m.files :
               /\ \A j \in DOMAIN m.files : Len(m.files[j].ext) <= Len(m.files[i].ext)
               /\ \A j \in 1..(i-1) : Len(m.files[j].ext) < Len(m.files[i].ext)].ext
\* Lines 394-409: copyd for the chunk counts end and sub_end, and what the
\* path made of it leaves.
CopydFor(m, end, sub_end) ==
    [num |-> m.num \o m.attr_str,
     rawtitle |-> replace_illegal_chars(Strip(JoinChunks(m.info[1].ori_title_break, end))),
     title |-> replace_illegal_chars(Strip(JoinChunks(m.info[1].title_break, sub_end)))]
RemainingFor(m, c, copyd) ==
    get_remaining_path_len(c,
        Abspath(PathJoin(SaveDir(m, c, copyd), Basename(m, c, copyd) \o LongestExt(m))))
Fits(m, c, end, sub_end) == RemainingFor(m, c, CopydFor(m, end, sub_end)) > 0
\* Mutant: the two loops count up from one chunk.
Visits_Ascending(m) ==
    [k \in 1..(Len(m.info[1].ori_title_break) * Len(m.info[1].title_break)) |->
        [end |-> 1 + ((k - 1) \div Len(m.info[1].title_break)),
         sub_end |-> 1 + ((k - 1) % Len(m.info[1].title_break))]]
\* The pairs (end, sub_end) in the order the two loops visit them.
Visits(m) ==
    [k \in 1..(Len(m.info[1].ori_title_break) * Len(m.info[1].title_break)) |->
        [end |-> Len(m.info[1].ori_title_break) - ((k - 1) \div Len(m.info[1].title_break)),
         sub_end |-> Len(m.info[1].title_break) - ((k - 1) % Len(m.info[1].title_break))]]
\* Lines 410-416 and 432-439: the names are assigned, then legalize_info.
AssignNames(m, c, copyd) ==
    [m EXCEPT
       !.save_dir = legalize_path(SaveDir(m, c, copyd)),
       !.basename = Basename(m, c, copyd),
       !.nfo_file = legalize_path(PathJoin(SaveDir(m, c, copyd),
                                           Format(c.nfo_pattern, copyd) \o <<".", "n">>)),
       !.fanart_file = legalize_path(PathJoin(SaveDir(m, c, copyd),
                                              Format(c.fanart_pattern, copyd) \o <<".", "j">>)),
       !.poster_file = legalize_path(PathJoin(SaveDir(m, c, copyd),
                                              Format(c.cover_pattern, copyd) \o <<".", "j">>))]
\* Lines 419-422: the titles of the last visit, cut to remaining characters.
HardSlice(copyd, remaining) ==
    [copyd EXCEPT !.title = SliceTo(@, remaining), !.rawtitle = SliceTo(@, remaining)]
\* generate_names(movie), lines 337-439. The result is [raised, movie]:
\* raised when an exception leaves the function, movie the movie afterwards.
\* remaining is bound by the body of the inner loop only: with no visit at
\* all, line 421 reads a local that was never assigned (UnboundLocalError).
generate_names(m, c) ==
    IF \E k \in DOMAIN Visits(m) : Fits(m, c, Visits(m)[k].end, Visits(m)[k].sub_end)
    THEN [raised |-> FALSE,
          movie |-> AssignNames(m, c,
                      CopydFor(m,
                        Visits(m)[CHOOSE k \in DOMAIN Visits(m) :
                           /\ Fits(m, c, Visits(m)[k].end, Visits(m)[k].sub_end)
                           /\ \A h \in 1..(k-1) :
                                 ~Fits(m, c, Visits(m)[h].end, Visits(m)[h].sub_end)].end,
                        Visits(m)[CHOOSE k \in DOMAIN Visits(m) :
                           /\ Fits(m, c, Visits(m)[k].end, Visits(m)[k].sub_end)
                           /\ \A h \in 1..(k-1) :
                                 ~Fits(m, c, Visits(m)[h].end, Visits(m)[h].sub_end)].sub_end))]
    ELSE IF Visits(m) = <<>> THEN [raised |-> TRUE, movie |-> m]
    ELSE [raised |-> FALSE,
          movie |-> AssignNames(m, c,
                      HardSlice(CopydFor(m, 1, 1), RemainingFor(m, c, CopydFor(m, 1, 1))))]

\* Lines 543-544: generate_names and the check_step on movie.save_dir.
CheckNames(r) ==
    /\ movie' = r.movie
    /\ IF ~r.raised /\ r.movie.save_dir \notin {NoneL, <<>>}
       THEN pc' = "files" /\ UNCHANGED <<success_count, failed_count>>
       ELSE Failed
RunNamer ==
    /\ pc = "names"
    /\ CheckNames(generate_names(movie, cfg))
    /\ namer_calls' = namer_calls + 1
    /\ UNCHANGED <<all_info, recs, batch>>
    /\ UNCHANGED StepFrame

\* The inputs: chunks, files, patterns and path limits.
Chunks == {<<"a", "b">>, <<"?">>, <<"a", NL, "b">>}
ChunkLists == UNION {[1..n -> Chunks] : n \in 0..MaxChunks}
Lit(text) == [kind |-> "lit", val |-> text]
Field(name) == [kind |-> "field", val |-> <<name>>]
MaxPathLens == {7, 11, 13, 20}
NamerConfigs ==
    {[BaseCfg @@ [move_files |-> mf, max_path |-> mp,
                  output_folder_pattern |-> <<Lit(<<"o">>), Field("title")>>,
                  basename_pattern |-> bp,
                  nfo_pattern |-> <<Field("num")>>,
                  fanart_pattern |-> <<Lit(<<"f">>)>>,
                  cover_pattern |-> <<Lit(<<"p">>)>>]
        EXCEPT !.required_keys = <<"title">>] :
        mf \in BOOLEAN, mp \in MaxPathLens,
        bp \in {<<Field("num")>>, <<Field("num"), Field("rawtitle")>>}}
NamedInfo(tb, otb) ==
    [covers |-> <<>>, big_covers |-> <<>>, title_break |-> tb, ori_title_break |-> otb] @@
    [NewInfo("ABC-123", NONE) EXCEPT !.title = "Foo"]
NamerMovies ==
    {[data_src |-> "normal", dvdid |-> "ABC-123", cid |-> NONE, hard_sub |-> FALSE,
      uncensored |-> FALSE, info |-> <<NamedInfo(tb, otb)>>,
      num |-> <<"n">>, attr_str |-> <<>>,
      files |-> <<[dir |-> <<"d">>, stem |-> <<"v">>, ext |-> <<".", "m">>]>>,
      save_dir |-> NoneL, basename |-> NoneL, nfo_file |-> NoneL,
      fanart_file |-> NoneL, poster_file |-> NoneL] :
        tb \in ChunkLists, otb \in ChunkLists}
InitNames ==
    /\ cfg \in NamerConfigs
    /\ movie \in NamerMovies
    /\ movie_in = movie
    /\ all_info = <<>>
    /\ recs = <<>>
    /\ th = <<>>
    /\ pool = <<>>
    /\ pc = "names"
    /\ joinIdx = 0
    /\ joinStart = 0
    /\ now = 0
    /\ marked = {}
    /\ namer_calls = 0
    /\ success_count = 0
    /\ failed_count = 0
    /\ batch = OneMovie
    /\ cover_dl = NoDownload
    /\ retry_call = NoRetryCall
NextNames == RunNamer
SpecNames == InitNames /\ [][NextNames]_vars

\* C20: generate_names raises on no movie with a final record, and leaves
\* save_dir, basename, nfo_file, fanart_file and poster_file all assigned.
C20_AlwaysAPlan ==
    [][pc = "names" =>
         /\ ~generate_names(movie, cfg).raised
         /\ \A f \in {"save_dir", "basename", "nfo_file", "fanart_file", "poster_file"} :
               movie'[f] # NoneL]_vars

\* The raw-title chunk counts with which some display-title chunk count fits,
\* the largest of them, and the largest display-title count that fits with it.
FitEnds(m, c) ==
    {e \in 1..Len(m.info[1].ori_title_break) :
        \E s \in 1..Len(m.info[1].title_break) : Fits(m, c, e, s)}
BestEnd(m, c) == CHOOSE e \in FitEnds(m, c) : \A e2 \in FitEnds(m, c) : e2 <= e
BestSubEnd(m, c, e) ==
    CHOOSE s \in 1..Len(m.info[1].title_break) :
        /\ Fits(m, c, e, s)
        /\ \A s2 \in 1..Len(m.info[1].title_break) : Fits(m, c, e, s2) => s2 <= s
\* No pair of chunk counts fits although the loops visit some.
NoneFits(m, c) == Visits(m) # <<>> /\ FitEnds(m, c) = {}
Prefixes(str) == {SubSeq(str, 1, n) : n \in 0..Len(str)}
HasNewline(path) == \E i \in DOMAIN path : path[i] = NL

\* C21: after generate_names, save_dir/basename+longest extension, nfo_file,
\* fanart_file and poster_file are, as absolute paths, no longer than the
\* longest path allowed.
C21_PathsWithinLimit ==
    namer_calls = 1 /\ movie.save_dir # NoneL =>
        /\ Len(Abspath(PathJoin(movie.save_dir, movie.basename \o LongestExt(movie))))
              <= cfg.max_path
        /\ \A f \in {"nfo_file", "fanart_file", "poster_file"} :
              Len(Abspath(movie[f])) <= cfg.max_path

\* C22: when some pair of chunk counts fits, the names are those of the
\* largest raw-title count with which some display-title count fits, and of
\* the largest display-title count that fits with it.
C22_FirstFitAccepted ==
    namer_calls = 1 /\ FitEnds(movie_in, cfg) # {} =>
        movie = AssignNames(movie_in, cfg,
                    CopydFor(movie_in, BestEnd(movie_in, cfg),
                             BestSubEnd(movie_in, cfg, BestEnd(movie_in, cfg))))
\* C22 witness: the full titles do not fit, the raw title cut to one chunk
\* with the full display title does, and the names are made of that pair.
C22_Witness ==
    /\ namer_calls = 1
    /\ pc = "files"
    /\ cfg.move_files
    /\ Len(movie_in.info[1].ori_title_break) = 2
    /\ Len(movie_in.info[1].title_break) = 2
    /\ FitEnds(movie_in, cfg) = {1}
    /\ BestSubEnd(movie_in, cfg, 1) = 2
    /\ movie = AssignNames(movie_in, cfg, CopydFor(movie_in, 1, 2))

\* C23: when no pair of chunk counts fits, the names are rendered from
\* prefixes of the one-chunk titles that are no longer than what remains of
\* the path (nothing, when the path is already too long).
C23_SlicedToBudget ==
    namer_calls = 1 /\ NoneFits(movie_in, cfg) =>
        \E t \in Prefixes(CopydFor(movie_in, 1, 1).title),
           r \in Prefixes(CopydFor(movie_in, 1, 1).rawtitle) :
            /\ \A x \in {t, r} :
                 Len(x) <= IF RemainingFor(movie_in, cfg, CopydFor(movie_in, 1, 1)) > 0
                           THEN RemainingFor(movie_in, cfg, CopydFor(movie_in, 1, 1))
                           ELSE 0
            /\ movie = AssignNames(movie_in, cfg,
                          [CopydFor(movie_in, 1, 1) EXCEPT !.title = t, !.rawtitle = r])

\* C24: after generate_names, none of save_dir, basename, nfo_file,
\* fanart_file and poster_file holds a newline.
C24_NoNewline ==
    namer_calls = 1 =>
        \A f \in {"save_dir", "basename", "nfo_file", "fanart_file", "poster_file"} :
            movie[f] # NoneL => ~HasNewline(movie[f])

\* ------------------------------------------------------------ RunNormalMode
\* The fifth specification runs the loop of RunNormalMode over a batch of
\* movies. What parallel_crawler returns for a movie is drawn from a small set
\* of results; the steps after it are those of the first specification.
MaxMovies == 3
BatchMovie ==
    [data_src |-> "normal", dvdid |-> "ABC-123", cid |-> NONE,
     hard_sub |-> FALSE, uncensored |-> FALSE, info |-> <<>>]
BatchCfg == [BaseCfg EXCEPT !.required_keys = <<"title">>]
CrawlResults(m) ==
    {[all_info |-> <<>>, recs |-> <<>>]} \cup
    {[all_info |-> <<[k |-> javbus, v |-> 1]>>,
      recs |-> <<[MovieInfoOfMovie(m) EXCEPT !.title = t]>>] : t \in {NONE, "Foo"}}
\* Line 526: all_info = parallel_crawler(movie, inner_bar)
ParallelCrawlerReturns ==
    /\ pc = "crawl"
    /\ \E r \in CrawlResults(movie) :
          /\ all_info' = r.all_info
          /\ recs' = r.recs
          /\ marked' = DOMAIN r.recs
    /\ pc' = "check_crawl"
    /\ UNCHANGED <<cfg, movie, movie_in, th, pool, joinIdx, joinStart, now,
                   namer_calls, success_count, failed_count, batch, cover_dl, retry_call>>
\* Lines 519 and 630-633: after the finally clause the loop takes the next movie.
NextMovie ==
    /\ pc = "done"
    /\ batch.at < Len(batch.all_movies)
    /\ batch' = [batch EXCEPT !.at = @ + 1]
    /\ movie' = movie_in
    /\ all_info' = <<>>
    /\ recs' = <<>>
    /\ marked' = {}
    /\ pc' = "crawl"
    /\ UNCHANGED <<cfg, movie_in, th, pool, joinIdx, joinStart, now,
                   namer_calls, success_count, failed_count, cover_dl, retry_call>>
\* Lines 635-643: the summary of the batch is sent and return_movies returned.
SendBatchSummary ==
    /\ pc = "done"
    /\ batch.at = Len(batch.all_movies)
    /\ batch' = [batch EXCEPT !.summary = [total |-> Len(batch.all_movies),
                                           success |-> success_count,
                                           failed |-> failed_count]]
    /\ pc' = "returned"
    /\ UNCHANGED <<cfg, movie, movie_in, all_info, recs, th, pool, joinIdx, joinStart, now,
                   marked, namer_calls, success_count, failed_count, cover_dl, retry_call>>
InitBatch ==
    /\ cfg = BatchCfg
    /\ movie = BatchMovie
    /\ movie_in = movie
    /\ all_info = <<>>
    /\ recs = <<>>
    /\ th = <<>>
    /\ pool = <<>>
    /\ pc = "crawl"
    /\ joinIdx = 0
    /\ joinStart = 0
    /\ now = 0
    /\ marked = {}
    /\ namer_calls = 0
    /\ success_count = 0
    /\ failed_count = 0
    /\ batch \in {[all_movies |-> [i \in 1..n |-> i], at |-> 1, return_movies |-> <<>>,
                   summary |-> NoneD] : n \in 1..MaxMovies}
    /\ cover_dl = NoDownload
    /\ retry_call = NoRetryCall
NextBatch ==
    \/ ParallelCrawlerReturns
    \/ CheckCrawl
    \/ Summarize
    \/ \E ok \in BOOLEAN : Translate(ok)
    \/ GenerateNames
    \/ \E ok \in BOOLEAN : FileSteps(ok)
    \/ NextMovie
    \/ SendBatchSummary
SpecBatch == InitBatch /\ [][NextBatch]_vars

\* C25: every movie of the batch is processed and counted once, as success or
\* as failure, whatever failed before it; the summary sent has success +
\* failed = total; return_movies holds the movies counted as success, in the
\* order of all_movies.
C25_BatchTally ==
    /\ success_count + failed_count =
          IF pc \in {"done", "returned"} THEN batch.at ELSE batch.at - 1
    /\ Len(batch.return_movies) = success_count
    /\ \A i \in DOMAIN batch.return_movies :
          /\ batch.return_movies[i] \in 1..batch.at
          /\ \A j \in DOMAIN batch.return_movies :
                i < j => batch.return_movies[i] < batch.return_movies[j]
    /\ pc = "returned" =>
          /\ batch.at = Len(batch.all_movies)
          /\ batch.summary = [total |-> Len(batch.all_movies),
                              success |-> success_count, failed |-> failed_count]
          /\ batch.summary.success + batch.summary.failed = batch.summary.total
\* C25 witness: of three movies the second failed; the first and the third
\* are returned.
C25_Witness ==
    /\ pc = "returned"
    /\ Len(batch.all_movies) = 3
    /\ batch.return_movies = <<1, 3>>
    /\ batch.summary = [total |-> 3, success |-> 2, failed |-> 1]

\* The entries of all_info whose site is, or is not, in the cid list, and
\* those of them whose record is marked successful.
CidGroup(d) == {d[i] : i \in {j \in DOMAIN d : InCidSelection(cfg, d[j].k)}}
NormalGroup(d) == {d[i] : i \in {j \in DOMAIN d : ~InCidSelection(cfg, d[j].k)}}
MarkedIn(group) == {e \in group : recs[e.v].success}

\* C26: for a movie with both ids the correction is decided by the records
\* marked successful alone: the movie stays cid exactly when a marked record
\* of the cid list has a title, and the group kept is never one without a
\* marked record while the group dropped has one.
C26_DecidedByMarked ==
    [][(pc = "correct" /\ pc' = "collect" /\ Both(movie)) =>
         /\ (movie'.data_src = "cid") <=>
               \E e \in MarkedIn(CidGroup(all_info)) : Truthy("title", recs[e.v].title)
         /\ movie'.data_src = "cid" =>
               ~(MarkedIn(CidGroup(all_info)) = {} /\ MarkedIn(NormalGroup(all_info)) # {})
         /\ movie'.data_src = "normal" =>
               ~(MarkedIn(NormalGroup(all_info)) = {} /\ MarkedIn(CidGroup(all_info)) # {})]_vars

\* C27: renaming the keys loses no record: the map returned has as many
\* entries as there were marked records in the map after the correction.
C27_NoRecordLost ==
    [][(pc = "collect" /\ pc' = "check_crawl") =>
         Len(all_info') = Cardinality({i \in DOMAIN all_info : recs[all_info[i].v].success})]_vars

\* C28: for a movie that came with both ids, after the correction a movie
\* kept as cid has no record made from its dvdid in the map, and a movie made
\* normal has no record made from its cid, whatever the two lists share.
C28_NoOtherKindRecord ==
    (Both(movie_in) /\ pc # "correct") =>
        /\ movie.data_src = "cid" => \A i \in DOMAIN all_info : ~IsStdRec(all_info[i].v)
        /\ movie.data_src = "normal" => \A i \in DOMAIN all_info : IsStdRec(all_info[i].v)

\* C29: a movie that came with both ids is untouched until the correction and
\* from then on is either cid without dvdid or normal without cid, with the
\* other id as it came.
C29_OneKindOneId ==
    Both(movie_in) =>
        IF pc \in {"start", "join", "correct"}
        THEN movie = movie_in
        ELSE \/ /\ movie.data_src = "cid"
                /\ movie.dvdid = NONE
                /\ movie.cid = movie_in.cid
             \/ /\ movie.data_src = "normal"
                /\ movie.cid = NONE
                /\ movie.dvdid = movie_in.dvdid
\* C29 witness: the crawl of a movie that came as cid with a dvdid returned
\* records, and the movie is now normal, without cid.
C29_Witness ==
    /\ Both(movie_in)
    /\ pc = "check_crawl"
    /\ all_info # <<>>
    /\ movie.data_src = "normal" /\ movie.cid = NONE /\ movie.dvdid = "ABC-123"

\* C30: info_summary returns True or False on every map of records and every
\* configuration; no exception leaves it.
C30_NeverRaises ==
    [][pc = "summary" =>
         /\ info_summary(movie, cfg, all_info, recs).ok \in {"True", "False"}
         /\ pc' \in {"translate", "done"}
         /\ pc' = "translate" <=> info_summary(movie, cfg, all_info, recs).ok = "True"]_vars

\* C31: with respect_site_avid an id in use that the merge had filled before
\* the resolution is still filled in the final record.
C31_IdStaysFilled ==
    (pc = "translate" /\ cfg.respect_site_avid) =>
        (Truthy(IdInUse, MergeRecords(movie_in, [cfg EXCEPT !.respect_site_avid = FALSE],
                                      all_info, recs).final[IdInUse])
            => Truthy(IdInUse, movie.info[1][IdInUse]))

\* ------------------------------------------------------------ download_cover
\* The sixth specification calls download_cover on the covers of a final
\* record. Each download ends in one of four ways: a valid picture, a picture
\* that is not valid, requests.exceptions.HTTPError, or another exception.
DownloadOutcomes == {"valid", "invalid", "http_error", "error"}
CoverLists == {<<>>, <<"U1">>, <<"U1", "U2">>}
BigCoverLists == {<<>>, <<"B1">>, <<"B1", "B2">>}
CoverConfigs ==
    {[BaseCfg EXCEPT !.retry = r] @@ [highres |-> h] : r \in 1..MaxRetry, h \in BOOLEAN}
CoverMovies ==
    {[BatchMovie EXCEPT !.info = <<[covers |-> cv, big_covers |-> bc] @@
                                   [NewInfo("ABC-123", NONE) EXCEPT !.title = "Foo"]>>] :
        cv \in CoverLists, bc \in BigCoverLists}
\* Lines 549-552: big_covers is passed only when highres is configured.
BigCoversArg == IF cfg.highres THEN movie.info[1].big_covers ELSE <<>>
CoversArg == movie.info[1].covers
\* Lines 665 and 678-680: the next url of covers, or None when there is none.
NextCover(s) ==
    IF s.pc = "covers" /\ s.i > Len(CoversArg)
    THEN [s EXCEPT !.pc = "returned", !.result = NONE]
    ELSE s
\* Lines 649 and 665: the next url of big_covers, or the first of covers.
NextBigCover(s) ==
    IF s.pc = "big" /\ s.i > Len(BigCoversArg)
    THEN NextCover([s EXCEPT !.pc = "covers", !.i = 1, !.n = 0])
    ELSE NextCover(s)
\* Lines 651 and 667: for _ in range(Cfg().network.retry), after a failed try.
NextTry(s) ==
    IF s.n + 1 < cfg.retry THEN [s EXCEPT !.n = @ + 1]
    ELSE NextBigCover([s EXCEPT !.i = @ + 1, !.n = 0])
CoverFrame == <<cfg, movie, movie_in, all_info, recs, th, pool, pc, joinIdx, joinStart, now,
                marked, namer_calls, success_count, failed_count, batch, retry_call>>
\* Lines 549-552 and 646-649: download_cover is called.
CallDownloadCover ==
    /\ pc = "files"
    /\ cover_dl.pc = "none"
    /\ cover_dl' = NextBigCover([cover_dl EXCEPT !.pc = "big", !.i = 1, !.n = 0])
    /\ UNCHANGED CoverFrame
Logged(s, url, outcome) == [s EXCEPT !.log = Append(@, [url |-> url, outcome |-> outcome])]
\* Lines 649-663: one try of a url of big_covers. Only HTTPError is caught.
DownloadBigCover(outcome) ==
    /\ cover_dl.pc = "big"
    /\ cover_dl' =
         IF outcome = "valid"
         THEN [Logged(cover_dl, BigCoversArg[cover_dl.i], outcome)
                 EXCEPT !.pc = "returned", !.result = BigCoversArg[cover_dl.i]]
         ELSE IF outcome = "http_error"
         THEN NextBigCover([Logged(cover_dl, BigCoversArg[cover_dl.i], outcome)
                              EXCEPT !.i = @ + 1, !.n = 0])
         ELSE IF outcome = "error"
         THEN [Logged(cover_dl, BigCoversArg[cover_dl.i], outcome) EXCEPT !.pc = "raised"]
         ELSE NextTry(Logged(cover_dl, BigCoversArg[cover_dl.i], outcome))
    /\ UNCHANGED CoverFrame
\* Lines 665-677: one try of a url of covers. Every Exception is caught and
\* the url tried again; a picture that is not valid ends the tries of the url.
DownloadCover(outcome) ==
    /\ cover_dl.pc = "covers"
    /\ cover_dl' =
         IF outcome = "valid"
         THEN [Logged(cover_dl, CoversArg[cover_dl.i], outcome)
                 EXCEPT !.pc = "returned", !.result = CoversArg[cover_dl.i]]
         ELSE IF outcome = "invalid"
         THEN NextBigCover([Logged(cover_dl, CoversArg[cover_dl.i], outcome)
                              EXCEPT !.i = @ + 1, !.n = 0])
         ELSE NextTry(Logged(cover_dl, CoversArg[cover_dl.i], outcome))
    /\ UNCHANGED CoverFrame
InitCover ==
    /\ cfg \in CoverConfigs
    /\ movie \in CoverMovies
    /\ movie_in = movie
    /\ all_info = <<>>
    /\ recs = <<>>
    /\ th = <<>>
    /\ pool = <<>>
    /\ pc = "files"
    /\ joinIdx = 0
    /\ joinStart = 0
    /\ now = 0
    /\ marked = {}
    /\ namer_calls = 1
    /\ success_count = 0
    /\ failed_count = 0
    /\ batch = OneMovie
    /\ cover_dl = NoDownload
    /\ retry_call = NoRetryCall
NextCoverDl ==
    \/ CallDownloadCover
    \/ \E outcome \in DownloadOutcomes : DownloadBigCover(outcome)
    \/ \E outcome \in DownloadOutcomes : DownloadCover(outcome)
SpecCover == InitCover /\ [][NextCoverDl]_vars

\* The tries of a url so far, and the urls in the order download_cover takes them.
TriesOf(url) == {k \in DOMAIN cover_dl.log : cover_dl.log[k].url = url}
Candidates == BigCoversArg \o CoversArg
\* C32: no failure of a download leaves download_cover without the covers
\* having been tried: urls are tried in the order big_covers, covers, each at
\* most retry times; the url returned is the first whose picture was valid;
\* None is returned only after every url was tried and none was valid.
C32_AlwaysFallsBack ==
    /\ cover_dl.pc # "raised"
    /\ \A i \in DOMAIN Candidates : Cardinality(TriesOf(Candidates[i])) <= cfg.retry
    /\ \A k \in DOMAIN cover_dl.log : \A l \in DOMAIN cover_dl.log :
          k < l =>
             \E i \in DOMAIN Candidates : \E j \in DOMAIN Candidates :
                /\ i <= j
                /\ Candidates[i] = cover_dl.log[k].url
                /\ Candidates[j] = cover_dl.log[l].url
    /\ \A k \in DOMAIN cover_dl.log :
          cover_dl.log[k].outcome = "valid" =>
             /\ k = Len(cover_dl.log)
             /\ cover_dl.pc = "returned"
             /\ cover_dl.result = cover_dl.log[k].url
    /\ (cover_dl.pc = "returned" /\ cover_dl.result = NONE) =>
          /\ \A i \in DOMAIN Candidates : TriesOf(Candidates[i]) # {}
          /\ \A k \in DOMAIN cover_dl.log : cover_dl.log[k].outcome # "valid"

\* ------------------------------------------------------------ retry_on_error
\* The seventh specification calls a function wrapped by
\* retry_on_error(max_retries, delay). Each call of the function returns a
\* value or raises an exception.
MaxRetries == 3
Delays == {0, 1, 2}
FuncValues == {"v1", "v2"}
FuncErrors == {"E1", "E2"}
RetryFrame == <<cfg, movie, movie_in, all_info, recs, th, pool, pc, joinIdx, joinStart, now,
                marked, namer_calls, success_count, failed_count, batch, cover_dl>>
\* Lines 33-35 and 46: wrapper starts with retries = 0; with nothing to try
\* the loop is not entered and None is returned.
CallWrapper ==
    /\ retry_call.pc = "none"
    /\ retry_call' =
         IF 0 < retry_call.max_retries THEN [retry_call EXCEPT !.pc = "loop"]
         ELSE [retry_call EXCEPT !.pc = "returned", !.result = NONE]
    /\ UNCHANGED RetryFrame
\* Lines 36-37: the function returns and wrapper returns its value.
FuncReturns(v) ==
    /\ retry_call.pc = "loop"
    /\ retry_call' = [retry_call EXCEPT !.pc = "returned", !.result = v,
                                        !.log = Append(@, [kind |-> "return", val |-> v])]
    /\ UNCHANGED RetryFrame
\* Mutant: the test of line 40 is retries > max_retries; the last exception
\* is followed by a sleep and the loop ends.
FuncRaises_OneMore(e) ==
    /\ retry_call.pc = "loop"
    /\ retry_call' =
         IF retry_call.retries + 1 < retry_call.max_retries
         THEN [retry_call EXCEPT !.retries = @ + 1, !.slept = @ + retry_call.delay,
                                 !.log = Append(@, [kind |-> "raise", val |-> e])]
         ELSE [retry_call EXCEPT !.retries = @ + 1, !.slept = @ + retry_call.delay,
                                 !.pc = "returned", !.result = NONE,
                                 !.log = Append(@, [kind |-> "raise", val |-> e])]
    /\ UNCHANGED RetryFrame
\* Lines 38-44: the function raises; the last allowed failure is raised
\* again, any other is followed by time.sleep(delay) and the next turn.
FuncRaises(e) ==
    /\ retry_call.pc = "loop"
    /\ retry_call' =
         IF retry_call.retries + 1 = retry_call.max_retries
         THEN [retry_call EXCEPT !.retries = @ + 1, !.pc = "raised", !.result = e,
                                 !.log = Append(@, [kind |-> "raise", val |-> e])]
         ELSE [retry_call EXCEPT !.retries = @ + 1, !.slept = @ + retry_call.delay,
                                 !.log = Append(@, [kind |-> "raise", val |-> e])]
    /\ UNCHANGED RetryFrame
InitRetry ==
    /\ cfg = BaseCfg
    /\ movie = BatchMovie
    /\ movie_in = movie
    /\ all_info = <<>>
    /\ recs = <<>>
    /\ th = <<>>
    /\ pool = <<>>
    /\ pc = "done"
    /\ joinIdx = 0
    /\ joinStart = 0
    /\ now = 0
    /\ marked = {}
    /\ namer_calls = 0
    /\ success_count = 0
    /\ failed_count = 0
    /\ batch = OneMovie
    /\ cover_dl = NoDownload
    /\ retry_call \in {[NoRetryCall EXCEPT !.max_retries = m, !.delay = d] :
                         m \in 0..MaxRetries, d \in Delays}
NextRetry ==
    \/ CallWrapper
    \/ \E v \in FuncValues : FuncReturns(v)
    \/ \E e \in FuncErrors : FuncRaises(e)
SpecRetry == InitRetry /\ [][NextRetry]_vars

\* The calls of the function that raised.
Raises == {k \in DOMAIN retry_call.log : retry_call.log[k].kind = "raise"}
\* C33: the function is called at most max_retries times; a call that returns
\* is the last one and its value is returned; max_retries calls that all
\* raise end with the last exception raised to the caller; the wrapper has
\* slept delay after every failed call except the one whose exception it
\* raises.
C33_RetryOnError ==
    /\ Len(retry_call.log) <= retry_call.max_retries
    /\ \A k \in DOMAIN retry_call.log :
          retry_call.log[k].kind = "return" =>
             /\ k = Len(retry_call.log)
             /\ retry_call.pc = "returned"
             /\ retry_call.result = retry_call.log[k].val
    /\ retry_call.pc = "raised" <=>
          /\ retry_call.max_retries > 0
          /\ Cardinality(Raises) = retry_call.max_retries
    /\ retry_call.pc = "raised" =>
          retry_call.result = retry_call.log[Len(retry_call.log)].val
    /\ retry_call.pc = "returned" =>
          \/ retry_call.max_retries = 0 /\ retry_call.log = <<>> /\ retry_call.result = NONE
          \/ /\ retry_call.log # <<>>
             /\ retry_call.log[Len(retry_call.log)].kind = "return"
    /\ retry_call.slept =
          retry_call.delay *
             (Cardinality(Raises) - IF retry_call.pc = "raised" THEN 1 ELSE 0)
\* C33 witness: with three tries allowed and a delay of 2 the function raised
\* twice and then returned v1: v1 is returned after two sleeps.
C33_Witness ==
    /\ retry_call.pc = "returned"
    /\ retry_call.max_retries = 3 /\ retry_call.delay = 2
    /\ Len(retry_call.log) = 3
    /\ Raises = {1, 2}
    /\ retry_call.result = "v1"
    /\ retry_call.slept = 4
\* C33, the other end: three tries raised; the exception of the third is
\* raised after two sleeps.
C33_RaisedWitness ==
    /\ retry_call.pc = "raised"
    /\ retry_call.max_retries = 3 /\ retry_call.delay = 1
    /\ Raises = {1, 2, 3}
    /\ retry_call.log[2].val = "E1" /\ retry_call.log[3].val = "E2"
    /\ retry_call.result = "E2"
    /\ retry_call.slept = 2
====
